---- MODULE Spec2Model ----
(***************************************************************************)
(* A model of libqtile/images.py: the Img handle (lazy, cached surface and *)
(* pattern, invalidated through the _Resetter descriptors) and the Loader  *)
(* that resolves icon names over an ordered list of directories; and of    *)
(* the NotificationManager of libqtile/notify.py with its coroutines.      *)
(*                                                                         *)
(* A number that a caller passes is written as the rational <<n, d>>, d a  *)
(* power of 2.  Inside an operation the numbers are floats, kept with      *)
(* their 53-bit significand, and a product or a quotient is rounded as the *)
(* float arithmetic of the source rounds it.                               *)
(***************************************************************************)
EXTENDS Integers, Sequences, FiniteSets, TLC

VARIABLES
    natural,    \* <<w0, h0>>: the size the decoder gives bytes_img without a target size
    img,        \* the fields of one Img, with the outcome of the last operation on it
    last,       \* the last operation on img: its name, arguments and what it found cached
    fs,         \* Loader.directories: per directory, its file names in scan order
    ldr,        \* the last call of the Loader: the names asked for and the outcome
    cmp,        \* what img was made of, the object it is compared with, and the answer
    nm,         \* the NotificationManager, the connections to the bus, and the last step
    co          \* the calls of service() and register(): where each coroutine stands

vars == <<natural, img, last, fs, ldr, cmp, nm, co>>

----------------------------------------------------------------------------
(* Bounds of the model *)

\* operations are offered while at most MaxLive derived surfaces are unreleased
MaxLive == 1
\* the decoder call of one operation that may fail hard is one of the first MaxFailAt
MaxFailAt == 2
\* pixel values are written in halves, from 0 to MaxHalves halves
MaxHalves == 5
\* a Loader has at most MaxDirs directories, of at most MaxFiles files each,
\* and is asked for at most MaxNames names at once
MaxDirs == 2
MaxFiles == 2
MaxNames == 2
\* at most MaxTasks coroutines of the manager are under way at once, at most
\* MaxStarts are ever started, and at most MaxNotifs notifications are added
MaxTasks == 2
MaxStarts == 3
MaxNotifs == 3

----------------------------------------------------------------------------
(* Optional values: Python's None and an unset attribute *)

None == <<>>
Some(v) == <<v>>

----------------------------------------------------------------------------
(* Numbers *)

\* the number n / d, and the product and the quotient of such numbers
Rat(n, d) == <<n, d>>
Mul(a, b) == <<a[1] * b[1], a[2] * b[2]>>
Div(a, b) == IF b[1] < 0 THEN <<(0 - a[1]) * b[2], a[2] * (0 - b[1])>>
             ELSE <<a[1] * b[2], a[2] * b[1]>>

RECURSIVE Gcd(_, _)
Gcd(a, b) == IF b = 0 THEN a ELSE Gcd(b, a % b)
\* the number a in lowest terms
Reduced(a) ==
    LET g == Gcd(IF a[1] < 0 THEN 0 - a[1] ELSE a[1], a[2])
    IN  <<a[1] \div g, a[2] \div g>>
Add(a, b) == Reduced(<<a[1] * b[2] + b[1] * a[2], a[2] * b[2]>>)
Neg(a) == <<0 - a[1], a[2]>>
Same(a, b) == a[1] * b[2] = b[1] * a[2]

Max(a, b) == IF a >= b THEN a ELSE b

\* float(value) of the theta setter, value an int of degrees
ToFloat(n) == Rat(n, 1)

----------------------------------------------------------------------------
(* Natural numbers of any size: the digits to the base 2^LimbBits, the      *)
(* least significant first and the most significant not 0.                 *)

LimbBits == 14
Base == 2 ^ LimbBits

RECURSIVE BigNorm(_)
BigNorm(x) ==
    IF x # <<>> /\ x[Len(x)] = 0 THEN BigNorm(SubSeq(x, 1, Len(x) - 1)) ELSE x

RECURSIVE BigOfInt(_)
BigOfInt(n) == IF n = 0 THEN <<>> ELSE <<n % Base>> \o BigOfInt(n \div Base)

RECURSIVE BigToInt(_)
BigToInt(x) == IF x = <<>> THEN 0 ELSE x[1] + Base * BigToInt(Tail(x))

\* x * s + c for a digit s
RECURSIVE BigMulInt(_, _, _)
BigMulInt(x, s, c) ==
    IF x = <<>> THEN BigOfInt(c)
    ELSE <<(x[1] * s + c) % Base>> \o BigMulInt(Tail(x), s, (x[1] * s + c) \div Base)

RECURSIVE BigAdd(_, _, _)
BigAdd(x, y, c) ==
    IF x = <<>> THEN BigMulInt(y, 1, c)
    ELSE IF y = <<>> THEN BigMulInt(x, 1, c)
    ELSE <<(x[1] + y[1] + c) % Base>>
             \o BigAdd(Tail(x), Tail(y), (x[1] + y[1] + c) \div Base)

RECURSIVE BigMul(_, _)
BigMul(x, y) ==
    IF x = <<>> \/ y = <<>> THEN <<>>
    ELSE IF Len(y) = 1 THEN BigMulInt(x, y[1], 0)
    ELSE BigAdd(BigMulInt(x, y[1], 0), <<0>> \o BigMul(x, Tail(y)), 0)

\* <<x \div d, x % d>> for a d of at most 16 bits, the digits of x taken from
\* the most significant; r is the remainder so far
RECURSIVE BigDivInt(_, _, _)
BigDivInt(x, d, r) ==
    IF x = <<>> THEN <<<<>>, r>>
    ELSE LET t == r * Base + x[Len(x)]
             rest(q) == <<q[1] \o <<t \div d>>, q[2]>>
         IN  rest(BigDivInt(SubSeq(x, 1, Len(x) - 1), d, t % d))

RECURSIVE BitLen(_)
BitLen(n) == IF n = 0 THEN 0 ELSE 1 + BitLen(n \div 2)

\* the number of bits of x
BigBits(x) == IF x = <<>> THEN 0 ELSE LimbBits * (Len(x) - 1) + BitLen(x[Len(x)])

\* x * 2^s and x \div 2^s
BigShl(x, s) ==
    IF s = 0 \/ x = <<>> THEN x
    ELSE [i \in 1..(s \div LimbBits) |-> 0] \o BigMulInt(x, 2 ^ (s % LimbBits), 0)
BigShr(x, s) ==
    IF s \div LimbBits >= Len(x) THEN <<>>
    ELSE BigNorm(BigDivInt(SubSeq(x, (s \div LimbBits) + 1, Len(x)),
                           2 ^ (s % LimbBits), 0)[1])

\* bit i of x, bit 0 the least significant, and whether a bit below bit i is 1
BigBit(x, i) ==
    IF i < 0 \/ i \div LimbBits >= Len(x) THEN 0
    ELSE (x[(i \div LimbBits) + 1] \div (2 ^ (i % LimbBits))) % 2
BigLow(x, i) == \E j \in 0..(i - 1) : BigBit(x, j) = 1

\* x / 2^s rounded to the nearest integer, a tie to the even one; sticky says
\* that x stands for a number a little above x
BigRound(x, s, sticky) ==
    LET up == BigBit(x, s - 1) = 1 /\ (sticky \/ BigLow(x, s - 1) \/ BigBit(x, s) = 1)
    IN  IF s <= 0 THEN x ELSE BigAdd(BigShr(x, s), <<>>, IF up THEN 1 ELSE 0)

----------------------------------------------------------------------------
(* Floats.  A float is <<m, e>>, the number m * 2^e with m a natural number *)
(* of at most Precision bits; the numbers of the model are not negative.    *)

\* the bits of the significand of a Python float
Precision == 53

\* m * 2^e rounded to a float: to the nearest, a tie to the even significand;
\* whole digits of zeros at the low end go into the exponent
RECURSIVE FlTrim(_, _)
FlTrim(m, e) ==
    IF m # <<>> /\ m[1] = 0 THEN FlTrim(Tail(m), e + LimbBits) ELSE <<m, e>>
Fl(m, e, sticky) ==
    LET s == BigBits(m) - Precision
    IN  IF Len(m) * LimbBits <= Precision \/ s <= 0 THEN FlTrim(m, e)
        ELSE FlTrim(BigRound(m, s, sticky), e + s)

RECURSIVE Log2(_)
Log2(d) == IF d <= 1 THEN 0 ELSE 1 + Log2(d \div 2)
\* the number of times 2 divides d > 0
RECURSIVE Twos(_)
Twos(d) == IF d % 2 = 1 THEN 0 ELSE 1 + Twos(d \div 2)

\* the float of an int, and of the number <<n, d>> or None that a caller passes
IntFloat(n) == <<BigOfInt(n), 0>>
AsFloat(v) == IF v = None THEN None ELSE FlTrim(BigOfInt(v[1]), 0 - Log2(v[2]))

\* x * y and x / y of floats.  The divisors of the source are natural sizes:
\* the powers of 2 in one go into the exponent, and by the odd number d that
\* is left the significand is divided to more bits than Precision.
FloatMul(x, y) == Fl(BigMul(x[1], y[1]), x[2] + y[2], FALSE)
FloatDiv(x, y) ==
    LET t == Twos(BigToInt(y[1]))
        d == BigToInt(y[1]) \div (2 ^ t)
        s == Precision + 3 + BitLen(d)
        q == BigDivInt(BigShl(x[1], s), d, 0)
    IN  IF d = 1 THEN <<x[1], x[2] - y[2] - t>>
        ELSE Fl(BigNorm(q[1]), x[2] - s - y[2] - t, q[2] # 0)

\* Python's built-in round() of a float: the nearest integer, a tie to the even one
Round(x) ==
    IF x[2] >= 0 THEN BigToInt(BigShl(x[1], x[2]))
    ELSE BigToInt(BigRound(x[1], 0 - x[2], FALSE))

\* Python truthiness of an optional float: None and 0.0 are false
Truthy(x) == x # None /\ x[1] # <<>>

----------------------------------------------------------------------------
(* The decoder boundary.  Each operation on the Img is given an oracle for  *)
(* the decoder calls it makes: te says that the decoder takes the bytes     *)
(* only and rejects a call that passes a width and a height, be they None,  *)
(* with TypeError; failAt = k > 0 says that the k-th call fails hard, if    *)
(* the decoder takes its arguments.                                         *)

Oracles == [te : BOOLEAN, failAt : 0..MaxFailAt]
\* the oracle of an operation that makes no decoder call
Quiet == [te |-> FALSE, failAt |-> 0]
\* the oracles of the specification of the sizes: the first call may fail hard
SizeOracles == [te : {FALSE}, failAt : 0..1]

\* cairocffi.pixbuf.decode_to_image_surface(bytes_img[, width, height]);
\* args is None in a call with the bytes only, and Some(size) in a call that
\* passes a width and a height: size is None when both are None
Decode(m, args) ==
    LET k == m.calls + 1
        c == [m EXCEPT !.calls = k]
    IN  IF args # None /\ m.te THEN [c EXCEPT !.exc = "TypeError"]
        ELSE IF k = m.failAt THEN [c EXCEPT !.exc = "DecodeError"]
        ELSE [c EXCEPT !.ret = IF args = None \/ args[1] = None THEN natural
                                ELSE args[1]]

\* get_cairo_surface without the except clause
Fallback_Raise(a) == a

\* the except clause of get_cairo_surface: log and decode the bytes only
Fallback(a) ==
    IF a.exc = "TypeError"
    THEN Decode([a EXCEPT !.exc = "none", !.logged = TRUE], None)
    ELSE a

\* get_cairo_surface(bytes_img, width, height): the width and the height are
\* passed on to the decoder also when they are None
get_cairo_surface(m, size) == Fallback(Decode(m, Some(size)))

----------------------------------------------------------------------------
(* Img: every operator takes the running state m of one call and returns    *)
(* it with the fields changed, ret set, or exc naming the exception raised. *)
(* A call that raised passes its state on as it is; one that returned goes  *)
(* on with the statements that follow it, written as a local operator of    *)
(* the states the calls before it returned.                                 *)

\* default_surface that does not keep what it decoded
default_surface_NoMemo(m) ==
    LET keep(a) == IF a.exc # "none" THEN a ELSE [a EXCEPT !.natDecodes = @ + 1]
    IN  keep(get_cairo_surface(m, None))

default_surface(m) ==
    LET keep(a) == IF a.exc # "none" THEN a
                   ELSE [a EXCEPT !.dsurf = Some(a.ret), !.natDecodes = @ + 1]
    IN  IF m.dsurf # None THEN [m EXCEPT !.ret = m.dsurf[1]]
        ELSE keep(get_cairo_surface(m, None))

default_size(m) ==
    LET keep(a) == IF a.exc # "none" THEN a ELSE [a EXCEPT !.dsize = Some(a.ret)]
    IN  IF m.dsize # None THEN [m EXCEPT !.ret = m.dsize[1]]
        ELSE keep(default_surface(m))

\* _Descriptor.__get__ with _PixelSize.get_default; i = 1 for width, 2 for height
PixelGet(m, i) ==
    LET stored == IF i = 1 THEN m.w ELSE m.h
        part(a) == IF a.exc # "none" THEN a ELSE [a EXCEPT !.ret = a.ret[i]]
    IN  IF stored # None THEN [m EXCEPT !.ret = stored[1]]
        ELSE part(default_size(m))

\* _Descriptor.__get__ of theta, default 0.0
ThetaGet(m) == [m EXCEPT !.ret = IF m.theta # None THEN m.theta[1] ELSE Rat(0, 1)]

\* The identity of a surface object.  A new surface gets the least id that
\* names no other object still in existence: none that is unreleased, none
\* that the handle refers to now or referred to when the call began.
SurfIds(m) == {s.id : s \in {m.surf[i] : i \in DOMAIN m.surf}}
                  \cup {p.surface.id : p \in {m.pat[i] : i \in DOMAIN m.pat}}
FreshId(m) ==
    LET used == m.live \cup SurfIds(m) \cup m.hold
    IN  CHOOSE i \in 1..(Cardinality(used) + 1) :
            i \notin used /\ \A j \in 1..(i - 1) : j \in used

\* the surface getter: get_cairo_surface(self.bytes_img, self.width, self.height)
surface_get(m) ==
    LET keep(a, b, c) ==
            LET s == [id |-> FreshId(c), size |-> c.ret, req |-> <<a.ret, b.ret>>]
            IN  IF c.exc # "none" THEN c
                ELSE [c EXCEPT !.surf = Some(s), !.ret = s, !.live = @ \cup {s.id}]
        decode(a, b) ==
            IF b.exc # "none" THEN b
            ELSE keep(a, b, get_cairo_surface(b, <<a.ret, b.ret>>))
        height(a) == IF a.exc # "none" THEN a ELSE decode(a, PixelGet(a, 2))
    IN  IF m.surf # None THEN [m EXCEPT !.ret = m.surf[1]]
        ELSE height(PixelGet(m, 1))

\* the surface deleter
surface_del(m) == [m EXCEPT !.surf = None]

\* what the pattern is built from: the surface and the arguments
\* cairocffi.Matrix: the map of (x, y) to (xx*x + xy*y + x0, yx*x + yy*y + y0),
\* its entries written as exact numbers.  multiply gives the map that applies a
\* and then b; scale, translate and rotate put the new map before the old one.
Matrix == [xx |-> Rat(1, 1), yx |-> Rat(0, 1), xy |-> Rat(0, 1), yy |-> Rat(1, 1),
           x0 |-> Rat(0, 1), y0 |-> Rat(0, 1)]
multiply(a, b) ==
    LET dot(p, q, r, t) == Add(Reduced(Mul(p, q)), Reduced(Mul(r, t)))
    IN  [xx |-> dot(a.xx, b.xx, a.yx, b.xy),
         yx |-> dot(a.xx, b.yx, a.yx, b.yy),
         xy |-> dot(a.xy, b.xx, a.yy, b.xy),
         yy |-> dot(a.xy, b.yx, a.yy, b.yy),
         x0 |-> Add(dot(a.x0, b.xx, a.y0, b.xy), b.x0),
         y0 |-> Add(dot(a.x0, b.yx, a.y0, b.yy), b.y0)]
matrix_scale(m, sx, sy) == multiply([Matrix EXCEPT !.xx = sx, !.yy = sy], m)
translate(m, tx, ty) == multiply([Matrix EXCEPT !.x0 = tx, !.y0 = ty], m)
\* the cosine and the sine of an angle of whole quarter turns, in degrees
Cos(theta) == Rat(<<1, 0, -1, 0>>[((theta[1] \div 90) % 4) + 1], 1)
Sin(theta) == Rat(<<0, 1, 0, -1>>[((theta[1] \div 90) % 4) + 1], 1)
rotate(m, theta) ==
    multiply([Matrix EXCEPT !.xx = Cos(theta), !.yx = Sin(theta),
                            !.xy = Neg(Sin(theta)), !.yy = Cos(theta)], m)
transform_point(m, x, y) ==
    <<Add(Add(Reduced(Mul(m.xx, x)), Reduced(Mul(m.xy, y))), m.x0),
      Add(Add(Reduced(Mul(m.yx, x)), Reduced(Mul(m.yy, y))), m.y0)>>

\* the matrix that get_cairo_pattern sets on the pattern of a surface; width
\* and height are the pixels of the handle that Img.pattern passes, never None
pattern_matrix(surface, width, height, theta) ==
    LET surf_width == Rat(surface.size[1], 1)
        surf_height == Rat(surface.size[2], 1)
        tr_width == IF width # surface.size[1]
                    THEN Div(surf_width, Rat(width, 1)) ELSE Rat(1, 1)
        tr_height == IF height # surface.size[2]
                     THEN Div(surf_height, Rat(height, 1)) ELSE Rat(1, 1)
        xt == Reduced(Mul(Mul(surf_width, tr_width), Rat(1, 2)))
        yt == Reduced(Mul(Mul(surf_height, tr_height), Rat(1, 2)))
        matrix == matrix_scale(Matrix, tr_width, tr_height)
        mat_rot == translate(rotate(translate(Matrix, xt, yt), theta), Neg(xt), Neg(yt))
    IN  IF theta[1] # 0 THEN multiply(mat_rot, matrix) ELSE matrix

get_cairo_pattern(surface, width, height, theta) ==
    [surface |-> surface, width |-> width, height |-> height, theta |-> theta]

\* the pattern getter
pattern_get(m) ==
    LET keep(s, a, b, t) ==
            LET p == get_cairo_pattern(s.ret, a.ret, b.ret, t.ret)
            IN  [t EXCEPT !.pat = Some(p), !.ret = p]
        theta(s, a, b) == IF b.exc # "none" THEN b ELSE keep(s, a, b, ThetaGet(b))
        height(s, a) == IF a.exc # "none" THEN a ELSE theta(s, a, PixelGet(a, 2))
        width(s) == IF s.exc # "none" THEN s ELSE height(s, PixelGet(s, 1))
    IN  IF m.pat # None THEN [m EXCEPT !.ret = m.pat[1]]
        ELSE width(surface_get(m))

\* the pattern deleter
pattern_del(m) == [m EXCEPT !.pat = None]

\* Img._reset.  hasattr(self, "surface") and hasattr(self, "pattern") evaluate
\* the properties, so they run the getters; an exception of a getter that is
\* not an AttributeError leaves hasattr and _reset.
_reset(m) ==
    LET delp(p) == IF p.exc # "none" THEN p ELSE pattern_del(p)
        dels(s) == IF s.exc # "none" THEN s
                   ELSE delp(pattern_get(surface_del([s EXCEPT !.live = @ \ {s.ret.id}])))
    IN  dels(surface_get(m))

\* _PixelSize.__set__ that rounds and does not clamp
PixelSet_NoClamp(m, i, value) ==
    LET v == Round(value)
    IN  IF m.exc # "none" THEN m
        ELSE _reset(IF i = 1 THEN [m EXCEPT !.w = Some(v)] ELSE [m EXCEPT !.h = Some(v)])

\* _PixelSize.__set__, then _Resetter.__set__
PixelSet(m, i, value) ==
    LET v == Max(Round(value), 1)
    IN  IF m.exc # "none" THEN m
        ELSE _reset(IF i = 1 THEN [m EXCEPT !.w = Some(v)] ELSE [m EXCEPT !.h = Some(v)])

\* _Rotation.__set__ as a plain _Descriptor: the value is stored, nothing is reset
ThetaSet_NoReset(m, value) == [m EXCEPT !.theta = Some(ToFloat(value))]

\* _Rotation.__set__, then _Resetter.__set__
ThetaSet(m, value) == _reset([m EXCEPT !.theta = Some(ToFloat(value))])

\* _Descriptor.__delete__ of width (i = 1) and of height (i = 2): delattr of
\* the attribute under the name, an AttributeError when it is not set; nothing
\* is reset
PixelDel(m, i) ==
    IF (IF i = 1 THEN m.w ELSE m.h) = None THEN [m EXCEPT !.exc = "AttributeError"]
    ELSE IF i = 1 THEN [m EXCEPT !.w = None] ELSE [m EXCEPT !.h = None]

\* _Descriptor.__delete__ of theta
ThetaDel(m) ==
    IF m.theta = None THEN [m EXCEPT !.exc = "AttributeError"]
    ELSE [m EXCEPT !.theta = None]

\* _scale_lock that takes the natural width for the natural height
_scale_lock_Square(m, width_factor, height_factor, initial_size) ==
    LET width0 == IntFloat(initial_size[1])
    IN  IF Truthy(width_factor) /\ Truthy(height_factor)
        THEN [m EXCEPT !.exc = "ValueError"]
        ELSE IF Truthy(width_factor)
        THEN [m EXCEPT !.ret = <<FloatMul(width0, width_factor),
                                 FloatMul(width0, width_factor)>>]
        ELSE [m EXCEPT !.ret = <<FloatMul(width0, height_factor),
                                 FloatMul(width0, height_factor)>>]

_scale_lock(m, width_factor, height_factor, initial_size) ==
    LET width0 == IntFloat(initial_size[1])
        height0 == IntFloat(initial_size[2])
        byW == FloatMul(width0, width_factor)
        byH == FloatMul(height0, height_factor)
    IN  IF Truthy(width_factor) /\ Truthy(height_factor)
        THEN [m EXCEPT !.exc = "ValueError"]
        ELSE IF Truthy(width_factor)
        THEN [m EXCEPT !.ret = <<byW, FloatMul(FloatDiv(height0, width0), byW)>>]
        ELSE [m EXCEPT !.ret = <<FloatMul(FloatDiv(width0, height0), byH), byH>>]

_scale_free(m, width_factor, height_factor, initial_size) ==
    LET wf == IF width_factor = None THEN IntFloat(1) ELSE width_factor
        hf == IF height_factor = None THEN IntFloat(1) ELSE height_factor
    IN  [m EXCEPT !.ret = <<FloatMul(IntFloat(initial_size[1]), wf),
                            FloatMul(IntFloat(initial_size[2]), hf)>>]

\* scale that starts from the size the handle has
scale_Relative(m, width_factor, height_factor, lock_aspect_ratio) ==
    LET current(d) == IF d.exc # "none" THEN d
                      ELSE [d EXCEPT !.ret = <<IF d.w # None THEN d.w[1] ELSE d.ret[1],
                                               IF d.h # None THEN d.h[1] ELSE d.ret[2]>>]
        done(sh) == IF sh.exc # "none" THEN sh ELSE [sh EXCEPT !.ret = None]
        seth(res, sw) == IF sw.exc # "none" THEN sw
                         ELSE done(PixelSet(sw, 2, res.ret[2]))
        setw(res) == IF res.exc # "none" THEN res
                     ELSE seth(res, PixelSet(res, 1, res.ret[1]))
        sized(d) == IF d.exc # "none" THEN d
                    ELSE IF lock_aspect_ratio
                    THEN setw(_scale_lock(d, width_factor, height_factor, d.ret))
                    ELSE setw(_scale_free(d, width_factor, height_factor, d.ret))
    IN  IF ~(Truthy(width_factor) \/ Truthy(height_factor))
        THEN [m EXCEPT !.exc = "ValueError"]
        ELSE sized(current(default_size(m)))

\* Img.scale
scale(m, width_factor, height_factor, lock_aspect_ratio) ==
    LET done(sh) == IF sh.exc # "none" THEN sh ELSE [sh EXCEPT !.ret = None]
        seth(res, sw) == IF sw.exc # "none" THEN sw
                         ELSE done(PixelSet(sw, 2, res.ret[2]))
        setw(res) == IF res.exc # "none" THEN res
                     ELSE seth(res, PixelSet(res, 1, res.ret[1]))
        sized(d) == IF d.exc # "none" THEN d
                    ELSE IF lock_aspect_ratio
                    THEN setw(_scale_lock(d, width_factor, height_factor, d.ret))
                    ELSE setw(_scale_free(d, width_factor, height_factor, d.ret))
    IN  IF ~(Truthy(width_factor) \/ Truthy(height_factor))
        THEN [m EXCEPT !.exc = "ValueError"]
        ELSE sized(default_size(m))

resize(m, width, height) ==
    LET sized(d) ==
            LET width_factor ==
                    IF width # None THEN FloatDiv(width, IntFloat(d.ret[1])) ELSE None
                height_factor ==
                    IF height # None THEN FloatDiv(height, IntFloat(d.ret[2])) ELSE None
            IN  IF d.exc # "none" THEN d
                ELSE IF Truthy(width) /\ Truthy(height)
                THEN scale(d, width_factor, height_factor, FALSE)
                ELSE IF Truthy(width) \/ Truthy(height)
                THEN scale(d, width_factor, height_factor, TRUE)
                ELSE [d EXCEPT !.exc = "ValueError"]
    IN  sized(default_size(m))

\* the tuple that Img.__eq__ makes of a handle, after bytes_img: theta, width
\* and height, read in this order through their getters
Attributes(m) ==
    LET height(t, w, a) == IF a.exc # "none" THEN a ELSE [a EXCEPT !.ret = <<t, w, a.ret>>]
        width(t, a) == IF a.exc # "none" THEN a ELSE height(t, a.ret, PixelGet(a, 2))
        theta(a) == width(a.ret, PixelGet(a, 1))
    IN  theta(ThetaGet(m))

\* Img.__eq__ that compares the names as well
Img_eq_Named(m, made, other) ==
    LET done(a, b) ==
            [m |-> a, other |-> Some([other[1] EXCEPT !.m = b]), exc |-> b.exc,
             ret |-> IF b.exc # "none" THEN None
                     ELSE Some(<<made.bytes_img, made.name>> \o a.ret
                               = <<other[1].made.bytes_img, other[1].made.name>> \o b.ret)]
        second(a) == IF a.exc # "none"
                     THEN [m |-> a, other |-> other, exc |-> a.exc, ret |-> None]
                     ELSE done(a, Attributes([other[1].m EXCEPT !.calls = a.calls]))
    IN  IF other = None THEN [m |-> m, other |-> other, exc |-> "none", ret |-> Some(FALSE)]
        ELSE second(Attributes(m))

\* Img.__eq__ of the handle m, made of made = [bytes_img, name, path], with
\* other: an Img, as <<[made, m]>>, or an object of another class, as <<>>.
\* The decoder calls of both handles are the calls of the one comparison.
Img_eq(m, made, other) ==
    LET done(a, b) ==
            [m |-> a, other |-> Some([other[1] EXCEPT !.m = b]), exc |-> b.exc,
             ret |-> IF b.exc # "none" THEN None
                     ELSE Some(<<made.bytes_img>> \o a.ret
                               = <<other[1].made.bytes_img>> \o b.ret)]
        second(a) == IF a.exc # "none"
                     THEN [m |-> a, other |-> other, exc |-> a.exc, ret |-> None]
                     ELSE done(a, Attributes([other[1].m EXCEPT !.calls = a.calls]))
    IN  IF other = None THEN [m |-> m, other |-> other, exc |-> "none", ret |-> Some(FALSE)]
        ELSE second(Attributes(m))

----------------------------------------------------------------------------
(* NotificationManager.  n is the manager with the bus around it: the       *)
(* connections opened so far are 1..n.opened, n.open are those not yet      *)
(* disconnected and n.exported those a NotificationService was exported on. *)
(* t is one call of service() or register(); a coroutine runs from one      *)
(* await to the next without a break, and an operator gives n and t as that *)
(* run leaves them.  n.did tells the last step: the call that ran, what it  *)
(* returned, the callbacks it invoked, those that raised, its warning.      *)

Idle == [pc |-> "idle", kind |-> "none", callback |-> "", capabilities |-> {},
         on_close |-> None, conn |-> 0, exc |-> "none", ret |-> 0]
NoTasks == [i \in 1..MaxTasks |-> Idle]
Did(op, i, t) == [op |-> op, task |-> i, call |-> t, arg |-> 0, ret |-> 0,
                  exc |-> "none", invoked |-> <<>>, raised |-> {}, warned |-> FALSE]
\* NotificationManager.__init__
NewManager ==
    [notifications |-> <<>>, callbacks |-> <<>>, close_callbacks |-> <<>>,
     _service |-> None, bus |-> None,
     opened |-> 0, open |-> {}, exported |-> {}, started |-> 0,
     did |-> Did("init", 0, Idle)]

\* a call that ended: it returned ret, or it raised exc
Ended(t, pc, exc, ret) == [Idle EXCEPT !.pc = pc, !.kind = t.kind, !.exc = exc, !.ret = ret]
\* an object or None as a number: a service as its connection, None as 0
Ref(x) == IF x = None THEN 0 ELSE x[1].conn

\* NotificationService.register_capabilities
register_capabilities(service, capabilities) ==
    [service EXCEPT !.capabilities = @ \cup capabilities]

\* NotificationManager.register after service() has returned service
register_rest(n, t, service) ==
    LET closing(a) == IF t.on_close # None
                      THEN [a EXCEPT !.close_callbacks = Append(@, t.on_close[1])]
                      ELSE a
        appended == [n EXCEPT !.callbacks = Append(@, t.callback),
                              !.did.warned = (service = None)]
    IN  IF t.capabilities = {}
        THEN [n |-> closing(appended), t |-> Ended(t, "returned", "none", 0)]
        ELSE IF appended._service = None
        THEN [n |-> appended, t |-> Ended(t, "raised", "AttributeError", 0)]
        ELSE [n |-> closing([appended EXCEPT !._service =
                        Some(register_capabilities(@[1], t.capabilities))]),
              t |-> Ended(t, "returned", "none", 0)]

\* return self._service, to the caller of service() or to register()
service_return(n, t) ==
    IF t.kind = "register" THEN register_rest(n, t, n._service)
    ELSE [n |-> n, t |-> Ended(t, "returned", "none", Ref(n._service))]

\* reply = await self.bus.request_name(...): the request goes out on self.bus
request_name(n, t) == [n |-> n, t |-> [t EXCEPT !.pc = "requesting", !.conn = n.bus[1]]]

\* NotificationManager.service up to its first await
service(n, t) ==
    IF n.callbacks # <<>> THEN service_return(n, t)
    ELSE IF n.bus = None THEN [n |-> n, t |-> [t EXCEPT !.pc = "connecting"]]
    ELSE request_name(n, t)

\* NotificationManager.register: service = await self.service()
register(n, t) == service(n, t)

\* MessageBus().connect() has given a connection: it is stored, a service is
\* made and exported on it, and the name is requested
connected(n, t) ==
    LET c == n.opened + 1
    IN  request_name([n EXCEPT !.opened = c, !.open = @ \cup {c}, !.bus = Some(c),
                               !._service = Some([conn |-> c, capabilities |-> {"body"}]),
                               !.exported = @ \cup {c}], t)

\* MessageBus().connect() has raised: that is logged and None is returned
connect_failed(n, t) == service_return([n EXCEPT !._service = None, !.did.warned = TRUE], t)

\* the bus has answered the request of the name
replied(n, t, reply) ==
    IF reply # "EXISTS" THEN service_return(n, t)
    ELSE IF n.bus = None
    THEN [n |-> [n EXCEPT !._service = None, !.did.warned = TRUE],
          t |-> Ended(t, "raised", "AttributeError", 0)]
    ELSE service_return([n EXCEPT !._service = None, !.did.warned = TRUE,
                                  !.open = @ \ {n.bus[1]}, !.bus = None], t)

\* the request of the name has raised, its connection being disconnected
request_failed(n, t) == [n |-> n, t |-> Ended(t, "raised", "EOFError", 0)]

\* list.remove: s without the first x in it
RECURSIVE Remove(_, _)
Remove(s, x) ==
    IF s = <<>> THEN <<>>
    ELSE IF Head(s) = x THEN Tail(s)
    ELSE <<Head(s)>> \o Remove(Tail(s), x)

\* NotificationManager.unregister; what it does not find it logs
unregister(n, callback, on_close) ==
    LET a == [n EXCEPT !.callbacks = Remove(@, callback),
                       !.did.warned = \A k \in DOMAIN n.callbacks : n.callbacks[k] # callback]
    IN  IF on_close # None
        THEN [a EXCEPT !.close_callbacks = Remove(@, on_close[1]),
                       !.did.warned = @ \/ \A k \in DOMAIN n.close_callbacks :
                                               n.close_callbacks[k] # on_close[1]]
        ELSE a

\* Notification.__init__: the id is set when the notification is added
Notification(replaces_id) == [id |-> 0, replaces_id |-> replaces_id]

\* the loop without its try: the first exception leaves the loop and the call
RECURSIVE invoke_all_Unguarded(_, _, _, _)
invoke_all_Unguarded(callbacks, arg, raising, r) ==
    LET k == Len(r.invoked) + 1
        called == [r EXCEPT !.invoked = Append(@, [callback |-> callbacks[k], arg |-> arg])]
    IN  IF k > Len(callbacks) THEN r
        ELSE IF k \in raising THEN [called EXCEPT !.exc = "Exception"]
        ELSE invoke_all_Unguarded(callbacks, arg, raising, called)

\* for callback in callbacks: try: callback(arg); except Exception: logger.exception(...)
\* the loop of add and of close.  r is the step that is told: the callbacks
\* invoked so far with their argument, in the order of the calls, and the
\* places in the list of those whose exception was logged.  raising is the
\* set of the places in the list whose callback raises an Exception.
RECURSIVE invoke_all(_, _, _, _)
invoke_all(callbacks, arg, raising, r) ==
    LET k == Len(r.invoked) + 1
        called == [r EXCEPT !.invoked = Append(@, [callback |-> callbacks[k], arg |-> arg])]
    IN  IF k > Len(callbacks) THEN r
        ELSE IF k \in raising
        THEN invoke_all(callbacks, arg, raising, [called EXCEPT !.raised = @ \cup {k}])
        ELSE invoke_all(callbacks, arg, raising, called)

\* add that gives a notification the id of the one it replaces
add_Replacing(n, notif, raising) ==
    LET id == IF notif.replaces_id # None /\ notif.replaces_id[1] # 0
              THEN notif.replaces_id[1] ELSE Len(n.notifications) + 1
        looped(a) == IF a.did.exc # "none" THEN a ELSE [a EXCEPT !.did.ret = id]
    IN  looped([n EXCEPT !.notifications = Append(@, [notif EXCEPT !.id = id]),
                         !.did = invoke_all(n.callbacks, id, raising, @)])

\* NotificationManager.add; a callback is told the notification by its id
add(n, notif, raising) ==
    LET id == Len(n.notifications) + 1
        looped(a) == IF a.did.exc # "none" THEN a
                     ELSE [a EXCEPT !.did.ret = Len(a.notifications)]
    IN  looped([n EXCEPT !.notifications = Append(@, [notif EXCEPT !.id = id]),
                         !.did = invoke_all(n.callbacks, id, raising, @)])

\* NotificationManager.show
show(n, replaces_id, raising) == add(n, Notification(replaces_id), raising)

\* NotificationService.Notify
Notify(n, replaces_id, raising) == add(n, Notification(replaces_id), raising)

\* NotificationManager.close
close(n, nid, raising) ==
    [n EXCEPT !.did = invoke_all(n.close_callbacks, nid, raising, @)]

----------------------------------------------------------------------------
(* The state machine of one Img *)

\* what Img.__init__ keeps of its arguments
Made(bytes_img, name, path) == [bytes_img |-> bytes_img, name |-> name, path |-> path]
\* no comparison: img is made of some bytes and there is no other object
NoCmp == [made |-> Made(1, "a", "p"), other |-> None, ret |-> None]

\* Img.__init__: nothing is set but bytes_img, name and path
NewImg ==
    [w |-> None, h |-> None, theta |-> None, dsurf |-> None, dsize |-> None,
     surf |-> None, pat |-> None, live |-> {}, natDecodes |-> 0,
     exc |-> "none", logged |-> FALSE,
     retNum |-> 0, retPair |-> None, retSurf |-> None, retPat |-> None,
     ret |-> None, calls |-> 0, te |-> FALSE, failAt |-> 0, hold |-> {}]

\* the start of a call under oracle o, and its end
Begin(m, o) == [m EXCEPT !.exc = "none", !.logged = FALSE,
                         !.retNum = 0, !.retPair = None, !.retSurf = None, !.retPat = None,
                         !.ret = None, !.calls = 0, !.te = o.te, !.failAt = o.failAt,
                         !.hold = SurfIds(m)]
\* a setter, a deleter, scale and resize return nothing
EndNone(m) == [m EXCEPT !.ret = None, !.calls = 0, !.te = FALSE, !.failAt = 0, !.hold = {}]
\* what a getter returned, kept by its kind: a pixel size, a pair of numbers
\* (a rational or a size), a surface, a pattern
EndNum(m) == IF m.exc # "none" THEN EndNone(m) ELSE [EndNone(m) EXCEPT !.retNum = m.ret]
EndPair(m) == IF m.exc # "none" THEN EndNone(m) ELSE [EndNone(m) EXCEPT !.retPair = m.ret]
EndSurf(m) == IF m.exc # "none" THEN EndNone(m) ELSE [EndNone(m) EXCEPT !.retSurf = Some(m.ret)]
EndPat(m) == IF m.exc # "none" THEN EndNone(m) ELSE [EndNone(m) EXCEPT !.retPat = Some(m.ret)]

NaturalSizes == {<<2, 1>>, <<2, 4>>}
ThetaInputs == {90}
\* the inputs of the specification of the caches
CacheNaturals == {<<2, 2>>}
CachePixels == {Rat(3, 1)}
CacheFactors == {Rat(3, 2)}
CacheSizes == {Rat(3, 1)}
\* the inputs of the specification of the sizes
PixelInputs == {Rat(n, 2) : n \in 0..MaxHalves}
Factors == {None, Rat(0, 1), Rat(1, 2), Rat(2, 1)}
ResizeInputs == {None, Rat(0, 1), Rat(3, 1), Rat(5, 2)}

\* what the caller of an operation knows: the call, and the surface and
\* whether a pattern was cached when it was made
Obs(op, a, b, lock) ==
    [op |-> op, a |-> a, b |-> b, lock |-> lock,
     preSurf |-> SurfIds([img EXCEPT !.pat = None]), prePat |-> img.pat # None]

Call(res, op, a, b, lock) ==
    /\ Cardinality(img.live) <= MaxLive
    /\ img.natDecodes <= 1
    /\ img' = res
    /\ last' = Obs(op, a, b, lock)
    /\ UNCHANGED <<natural, fs, ldr, cmp, nm, co>>

ReadWidthOf(O) == \E o \in O :
    Call(EndNum(PixelGet(Begin(img, o), 1)), "get_width", None, None, FALSE)
ReadHeightOf(O) == \E o \in O :
    Call(EndNum(PixelGet(Begin(img, o), 2)), "get_height", None, None, FALSE)
ReadDefaultSizeOf(O) == \E o \in O :
    Call(EndPair(default_size(Begin(img, o))), "default_size", None, None, FALSE)
ReadTheta == \E o \in {Quiet} :
    Call(EndPair(ThetaGet(Begin(img, o))), "get_theta", None, None, FALSE)
ReadDefaultSurface == \E o \in Oracles :
    Call(EndPair(default_surface(Begin(img, o))), "default_surface", None, None, FALSE)
ReadSurface == \E o \in Oracles :
    Call(EndSurf(surface_get(Begin(img, o))), "get_surface", None, None, FALSE)
ReadPattern == \E o \in Oracles :
    Call(EndPat(pattern_get(Begin(img, o))), "get_pattern", None, None, FALSE)
DelSurface == \E o \in {Quiet} :
    Call(EndNone(surface_del(Begin(img, o))), "del_surface", None, None, FALSE)
DelPattern == \E o \in {Quiet} :
    Call(EndNone(pattern_del(Begin(img, o))), "del_pattern", None, None, FALSE)
DelWidth ==
    Call(EndNone(PixelDel(Begin(img, Quiet), 1)), "del_width", None, None, FALSE)
DelHeight ==
    Call(EndNone(PixelDel(Begin(img, Quiet), 2)), "del_height", None, None, FALSE)
DelTheta ==
    Call(EndNone(ThetaDel(Begin(img, Quiet))), "del_theta", None, None, FALSE)
WriteThetaOf(O, V) == \E o \in O, v \in V :
    Call(EndNone(ThetaSet(Begin(img, o), v)), "set_theta", ToFloat(v), None, FALSE)
WriteWidthOf(O, V) == \E o \in O, v \in V :
    Call(EndNone(PixelSet(Begin(img, o), 1, AsFloat(v))), "set_width", v, None, FALSE)
WriteHeightOf(O, V) == \E o \in O, v \in V :
    Call(EndNone(PixelSet(Begin(img, o), 2, AsFloat(v))), "set_height", v, None, FALSE)
ScaleOf(O, F) == \E o \in O, wf \in F, hf \in F, lock \in BOOLEAN :
    Call(EndNone(scale(Begin(img, o), AsFloat(wf), AsFloat(hf), lock)),
         "scale", wf, hf, lock)
ResizeOf(O, V) == \E o \in O, width \in V, height \in V :
    Call(EndNone(resize(Begin(img, o), AsFloat(width), AsFloat(height))),
         "resize", width, height, FALSE)

NoCall == [names |-> {}, out |-> "none", d |-> {}, missing |-> {}]

InitOf(N) ==
    /\ natural \in N
    /\ img = NewImg
    /\ last = [op |-> "init", a |-> None, b |-> None, lock |-> FALSE,
               preSurf |-> {}, prePat |-> FALSE]
    /\ fs = <<>>
    /\ ldr = NoCall
    /\ cmp = NoCmp
    /\ nm = NewManager
    /\ co = NoTasks

(* The caches: every operation of the handle, on few sizes *)
ReadWidth == ReadWidthOf(Oracles)
ReadHeight == ReadHeightOf(Oracles)
ReadDefaultSize == ReadDefaultSizeOf(Oracles)
WriteWidth == WriteWidthOf(Oracles, CachePixels)
WriteHeight == WriteHeightOf(Oracles, CachePixels)
WriteTheta == WriteThetaOf(Oracles, ThetaInputs)
Scale == ScaleOf(Oracles, CacheFactors)
Resize == ResizeOf(Oracles, CacheSizes)

Next ==
    \/ ReadWidth \/ ReadHeight \/ ReadTheta \/ ReadDefaultSize \/ ReadDefaultSurface
    \/ ReadSurface \/ ReadPattern \/ DelSurface \/ DelPattern
    \/ WriteWidth \/ WriteHeight \/ WriteTheta \/ Scale \/ Resize
    \/ DelWidth \/ DelHeight \/ DelTheta

Init == InitOf(CacheNaturals)

Spec == Init /\ [][Next]_vars

(* The sizes: the reads and writes of width and height, on many values *)
ReadWidthAny == ReadWidthOf(SizeOracles)
ReadHeightAny == ReadHeightOf(SizeOracles)
ReadDefaultSizeAny == ReadDefaultSizeOf(SizeOracles)
WriteWidthAny == WriteWidthOf(SizeOracles, PixelInputs)
WriteHeightAny == WriteHeightOf(SizeOracles, PixelInputs)
ScaleAny == ScaleOf(SizeOracles, Factors)
ResizeAny == ResizeOf(SizeOracles, ResizeInputs)

NextSize ==
    \/ ReadWidthAny \/ ReadHeightAny \/ ReadDefaultSizeAny
    \/ WriteWidthAny \/ WriteHeightAny \/ ScaleAny \/ ResizeAny
    \/ DelWidth \/ DelHeight

InitSize == InitOf(NaturalSizes)

SpecSize == InitSize /\ [][NextSize]_vars

(* Scaling: scale and resize on natural sizes that are no powers of 2, where *)
(* the quotients of the natural width and height are rounded                *)
ScaleNaturals == {<<100, 50>>, <<11, 3>>, <<3, 11>>}
ScaleFactors == {None, Rat(2, 1), Rat(5, 2)}
ScaleSizes == {None, Rat(4, 1), Rat(7, 2)}

ScaleWide == ScaleOf(SizeOracles, ScaleFactors)
ResizeWide == ResizeOf(SizeOracles, ScaleSizes)

NextScale == ScaleWide \/ ResizeWide \/ DelWidth \/ DelHeight

InitScale == InitOf(ScaleNaturals)

SpecScale == InitScale /\ [][NextScale]_vars

(* Equality: img and another object, each written to, are compared.  The   *)
(* byte strings 1 and 2 differ and decode to the same natural size.        *)
EqNaturals == {<<2, 2>>}
EqWidths == {Rat(2, 1), Rat(3, 1)}
EqHeights == {Rat(3, 1)}
Others == {None} \cup {Some([made |-> Made(b, n[1], n[2]), m |-> NewImg]) :
                          b \in {1, 2}, n \in {<<"a", "p">>, <<"b", "q">>}}

\* a call on the other handle
CallOther(o, res, op, a) ==
    /\ cmp.other # None
    /\ Cardinality(cmp.other[1].m.live) <= MaxLive
    /\ cmp.other[1].m.natDecodes <= 1
    /\ cmp' = [cmp EXCEPT !.other = Some([cmp.other[1] EXCEPT !.m = res]), !.ret = None]
    /\ last' = Obs(op, a, None, FALSE)
    /\ UNCHANGED <<natural, img, fs, ldr, nm, co>>

WriteWidthSelf == WriteWidthOf(SizeOracles, EqWidths)
WriteThetaSelf == WriteThetaOf(SizeOracles, ThetaInputs)
WriteWidthOther == \E o \in SizeOracles, v \in EqWidths :
    cmp.other # None /\
    CallOther(o, EndNone(PixelSet(Begin(cmp.other[1].m, o), 1, AsFloat(v))), "other_set_width", v)
WriteHeightOther == \E o \in SizeOracles, v \in EqHeights :
    cmp.other # None /\
    CallOther(o, EndNone(PixelSet(Begin(cmp.other[1].m, o), 2, AsFloat(v))), "other_set_height", v)
WriteThetaOther == \E o \in SizeOracles, v \in ThetaInputs :
    cmp.other # None /\
    CallOther(o, EndNone(ThetaSet(Begin(cmp.other[1].m, o), v)), "other_set_theta", ToFloat(v))
Compare == \E o \in SizeOracles :
    LET other == IF cmp.other = None THEN None
                 ELSE Some([cmp.other[1] EXCEPT !.m = Begin(@, o)])
        r == Img_eq(Begin(img, o), cmp.made, other)
    IN  /\ Cardinality(img.live) <= MaxLive
        /\ img.natDecodes <= 1
        /\ img' = [EndNone(r.m) EXCEPT !.exc = r.exc]
        /\ cmp' = [cmp EXCEPT !.ret = r.ret,
                              !.other = IF r.other = None THEN None
                                        ELSE Some([r.other[1] EXCEPT !.m = EndNone(@)])]
        /\ last' = Obs("eq", None, None, FALSE)
        /\ UNCHANGED <<natural, fs, ldr, nm, co>>

NextEq ==
    \/ WriteWidthSelf \/ WriteThetaSelf \/ DelWidth \/ DelTheta
    \/ WriteWidthOther \/ WriteHeightOther \/ WriteThetaOther
    \/ Compare

InitEq ==
    /\ natural \in EqNaturals
    /\ img = NewImg
    /\ last = [op |-> "init", a |-> None, b |-> None, lock |-> FALSE,
               preSurf |-> {}, prePat |-> FALSE]
    /\ fs = <<>>
    /\ ldr = NoCall
    /\ cmp \in [made : {NoCmp.made}, other : Others, ret : {None}]
    /\ nm = NewManager
    /\ co = NoTasks

SpecEq == InitEq /\ [][NextEq]_vars

(* The pattern: the handle is sized and turned, and its pattern is read *)
PatternNaturals == {<<2, 2>>, <<4, 2>>}
PatternPixels == {Rat(2, 1), Rat(4, 1), Rat(6, 1)}
Turns == {90, 180}

WriteWidthTo == WriteWidthOf(SizeOracles, PatternPixels)
WriteHeightTo == WriteHeightOf(SizeOracles, PatternPixels)
WriteTurn == WriteThetaOf(SizeOracles, Turns)

NextPattern ==
    \/ WriteWidthTo \/ WriteHeightTo \/ WriteTurn \/ ReadPattern
    \/ DelWidth \/ DelHeight \/ DelTheta

InitPattern == InitOf(PatternNaturals)

SpecPattern == InitPattern /\ [][NextPattern]_vars

----------------------------------------------------------------------------
(* Loader.  A name is the sequence of its characters, a path the pair of   *)
(* the index of a directory and a file name in it.                         *)

\* os.path.splitext on a name without separators: the extension starts at
\* the last dot, unless only dots come before it
splitext(n) ==
    LET dots == {i \in 1..Len(n) : n[i] = "."}
        dot == CHOOSE i \in dots : \A j \in dots : j <= i
    IN  IF dots = {} \/ \A j \in 1..(dot - 1) : n[j] = "."
        THEN <<n, <<>>>>
        ELSE <<SubSeq(n, 1, dot - 1), SubSeq(n, dot, Len(n))>>

\* the pattern of glob: * stands for any characters, the others for themselves
RECURSIVE GlobMatch(_, _)
GlobMatch(pat, str) ==
    IF pat = <<>> THEN str = <<>>
    ELSE IF Head(pat) = "*"
    THEN GlobMatch(Tail(pat), str) \/ (str # <<>> /\ GlobMatch(pat, Tail(str)))
    ELSE str # <<>> /\ Head(str) = Head(pat) /\ GlobMatch(Tail(pat), Tail(str))

\* the files among files[from..] that match the query, in scan order
RECURSIVE Matching(_, _, _)
Matching(files, query, from) ==
    IF from > Len(files) THEN <<>>
    ELSE (IF GlobMatch(query, files[from]) THEN <<files[from]>> ELSE <<>>)
             \o Matching(files, query, from + 1)

\* libqtile.utils.scan_files(directory, *names): for each name the paths it
\* matches in the directory
scan_files(i, queries) ==
    {<<q, [k \in DOMAIN Matching(fs[i], q, 1) |-> <<i, Matching(fs[i], q, 1)[k]>>]>> :
        q \in queries}

\* Img.from_path: the bytes are those of the file, the name drops the extension
from_path(path) == [path |-> path, name |-> splitext(path[2])[1]]

\* the first loop of __call__: the queries scan_files is given
set_names_of(names) ==
    {IF splitext(n)[2] # <<>> THEN n ELSE n \o <<".", "*">> : n \in names}

\* d[key] = value
DictSet(d, key, value) == {e \in d : e[1] # key} \cup {<<key, value>>}

\* the body of "for name, paths in d_matches.items()" over the matches left
RECURSIVE ForMatches(_, _, _)
ForMatches(matches, names, st) ==
    IF matches = {} THEN st
    ELSE LET m == CHOOSE e \in matches : TRUE
             name == m[1]
             paths == m[2]
             key == IF name \in names THEN name ELSE SubSeq(name, 1, Len(name) - 2)
             st1 == IF paths # <<>>
                    THEN [d |-> DictSet(st.d, key, from_path(paths[1])),
                          seen |-> st.seen \cup {name}]
                    ELSE st
         IN  ForMatches(matches \ {m}, names, st1)

\* the body of the directory loop with every query scanned again
ForDirectory_Rescan(i, names, set_names, st) ==
    ForMatches(scan_files(i, set_names), names, st)

\* the body of "for directory in self.directories"
ForDirectory(i, names, set_names, st) ==
    ForMatches(scan_files(i, set_names \ st.seen), names, st)

RECURSIVE ForDirectories(_, _, _, _)
ForDirectories(i, names, set_names, st) ==
    IF i > Len(fs) THEN st
    ELSE ForDirectories(i + 1, names, set_names, ForDirectory(i, names, set_names, st))

\* the end of __call__ raising only when nothing at all was found
Outcome_Partial(names, set_names, st) ==
    IF st.seen = {} /\ set_names # {}
    THEN [names |-> names, out |-> "LoadingError", d |-> {}, missing |-> set_names \ st.seen]
    ELSE [names |-> names, out |-> "ok", d |-> st.d, missing |-> {}]

\* the end of __call__: LoadingError or the mapping
Outcome(names, set_names, st) ==
    IF st.seen # set_names
    THEN [names |-> names, out |-> "LoadingError", d |-> {}, missing |-> set_names \ st.seen]
    ELSE [names |-> names, out |-> "ok", d |-> st.d, missing |-> {}]

\* Loader.__call__(*names)
Loader_call(names) ==
    Outcome(names, set_names_of(names),
            ForDirectories(1, names, set_names_of(names), [d |-> {}, seen |-> {}]))

FileNames == {<<"a", ".", "p">>, <<"a", ".", "s">>, <<"b", ".", "p">>}
AskedNames == {<<"a">>, <<"b">>, <<"a", ".", "p">>, <<"b", ".", "s">>, <<"a", ".", "*">>}

\* the sequences without repetition of at most n elements of S
Arrangements(S, n) ==
    {q \in UNION {[1..k -> S] : k \in 0..n} :
        \A i, j \in DOMAIN q : i # j => q[i] # q[j]}

Directories == Arrangements(FileNames, MaxFiles)
DirectoryLists == UNION {[1..k -> Directories] : k \in 0..MaxDirs}
Batches == {B \in SUBSET AskedNames : Cardinality(B) <= MaxNames}

\* Loader.__init__, over a file system
InitLoader ==
    /\ natural \in CacheNaturals
    /\ img = NewImg
    /\ last = [op |-> "init", a |-> None, b |-> None, lock |-> FALSE,
               preSurf |-> {}, prePat |-> FALSE]
    /\ fs \in DirectoryLists
    /\ ldr = NoCall
    /\ cmp = NoCmp
    /\ nm = NewManager
    /\ co = NoTasks

LoaderCall == \E names \in Batches :
    /\ ldr' = Loader_call(names)
    /\ UNCHANGED <<natural, img, last, fs, cmp, nm, co>>

NextLoader == LoaderCall

SpecLoader == InitLoader /\ [][NextLoader]_vars

----------------------------------------------------------------------------
(* The state machine of the NotificationManager *)

Callbacks == {"f", "g"}
CloseCallbacks == {"c"}
Capabilities == {{}, {"actions"}}
Replies == {"PRIMARY_OWNER", "EXISTS"}
ReplacesIds == {None, Some(0), Some(1)}
\* the callbacks that raise: none of those registered or all, and any of them
AllOrNone == {{}, 1..MaxStarts}
AnyRaise == SUBSET (1..MaxStarts)
Calls ==
    {[Idle EXCEPT !.kind = "service"]}
    \cup {[Idle EXCEPT !.kind = "register", !.callback = cb, !.capabilities = caps,
                       !.on_close = oc] :
             cb \in Callbacks, caps \in Capabilities,
             oc \in {None} \cup {Some(c) : c \in CloseCallbacks}}

\* coroutine i runs up to its next await, or to its end
Run(i, r) ==
    /\ nm' = r.n
    /\ co' = [co EXCEPT ![i] = r.t]
    /\ UNCHANGED <<natural, img, last, fs, ldr, cmp>>
\* a call of the manager that is no coroutine
Sync(n) ==
    /\ nm' = n
    /\ UNCHANGED <<natural, img, last, fs, ldr, cmp, co>>

StartServiceOf(T, C) == \E i \in T, t \in C :
    /\ t.kind = "service"
    /\ co[i].pc \in {"idle", "returned", "raised"}
    /\ nm.started < MaxStarts
    /\ Run(i, service([nm EXCEPT !.started = @ + 1, !.did = Did("service", i, t)], t))
StartRegisterOf(T, C) == \E i \in T, t \in C :
    /\ t.kind = "register"
    /\ co[i].pc \in {"idle", "returned", "raised"}
    /\ nm.started < MaxStarts
    /\ Run(i, register([nm EXCEPT !.started = @ + 1, !.did = Did("register", i, t)], t))
Connected == \E i \in 1..MaxTasks :
    /\ co[i].pc = "connecting"
    /\ Run(i, connected([nm EXCEPT !.did = Did("connected", i, co[i])], co[i]))
ConnectFailed == \E i \in 1..MaxTasks :
    /\ co[i].pc = "connecting"
    /\ Run(i, connect_failed([nm EXCEPT !.did = Did("connect_failed", i, co[i])], co[i]))
Replied == \E i \in 1..MaxTasks, reply \in Replies :
    /\ co[i].pc = "requesting"
    /\ Run(i, replied([nm EXCEPT !.did = Did("replied", i, co[i])], co[i], reply))
RequestFailed == \E i \in 1..MaxTasks :
    /\ co[i].pc = "requesting"
    /\ co[i].conn \notin nm.open
    /\ Run(i, request_failed([nm EXCEPT !.did = Did("request_failed", i, co[i])], co[i]))
UnregisterOf(F) == \E cb \in F, oc \in {None} \cup {Some(c) : c \in CloseCallbacks} :
    Sync(unregister([nm EXCEPT !.did = Did("unregister", 0, Idle)], cb, oc))
\* the callbacks that raise, by their places in the list that is gone through
Raising(P, callbacks) == {S \cap DOMAIN callbacks : S \in P}
ShowOf(I, P) == \E rid \in I, raising \in Raising(P, nm.callbacks) :
    /\ Len(nm.notifications) < MaxNotifs
    /\ Sync(show([nm EXCEPT !.did = Did("show", 0, Idle)], rid, raising))
NotifyCall == \E rid \in ReplacesIds \ {None}, raising \in Raising(AllOrNone, nm.callbacks) :
    /\ Len(nm.notifications) < MaxNotifs
    /\ nm._service # None
    /\ nm._service[1].conn \in nm.open
    /\ Sync(Notify([nm EXCEPT !.did = Did("Notify", 0, Idle)], rid, raising))
CloseOf(P) == \E nid \in 1..Len(nm.notifications),
                 raising \in Raising(P, nm.close_callbacks) :
    Sync(close([nm EXCEPT !.did = [Did("close", 0, Idle) EXCEPT !.arg = nid]], nid, raising))

InitNotify ==
    /\ natural \in CacheNaturals
    /\ img = NewImg
    /\ last = [op |-> "init", a |-> None, b |-> None, lock |-> FALSE,
               preSurf |-> {}, prePat |-> FALSE]
    /\ fs = <<>>
    /\ ldr = NoCall
    /\ cmp = NoCmp
    /\ nm = NewManager
    /\ co = NoTasks

(* The coroutines: calls of service() and register() under way together *)
StartService == StartServiceOf(1..MaxTasks, Calls)
StartRegister == StartRegisterOf(1..MaxTasks, Calls)
Unregister == UnregisterOf(Callbacks)

NextNotify ==
    \/ StartService \/ StartRegister \/ Connected \/ ConnectFailed \/ Replied
    \/ RequestFailed \/ Unregister

SpecNotify == InitNotify /\ [][NextNotify]_vars

(* The notifications: they are added and closed between calls of register() *)
(* and unregister() that are made one after the other                       *)
OneCalls == {t \in Calls : t.kind = "register" /\ t.callback = "f" /\ t.capabilities = {}}

RegisterAlone == StartRegisterOf({1}, OneCalls)
UnregisterOne == UnregisterOf({"f"})
Show == ShowOf(ReplacesIds, AllOrNone)
Close == CloseOf(AllOrNone)

NextIds ==
    \/ RegisterAlone \/ Connected \/ ConnectFailed \/ Replied
    \/ UnregisterOne \/ Show \/ NotifyCall \/ Close

SpecIds == InitNotify /\ [][NextIds]_vars

(* The callbacks: notifications are added and closed while any of the      *)
(* callbacks registered raise                                               *)
ClosePairs == {<<"f", "c">>, <<"g", "d">>}
PairCalls ==
    {[Idle EXCEPT !.kind = "register", !.callback = p[1], !.on_close = Some(p[2])] :
        p \in ClosePairs}

RegisterPair == StartRegisterOf({1}, PairCalls)
ShowRaising == ShowOf({None}, AnyRaise)
CloseRaising == CloseOf(AnyRaise)

NextCallbacks ==
    \/ RegisterPair \/ Connected \/ ConnectFailed \/ Replied
    \/ UnregisterOne \/ ShowRaising \/ CloseRaising

SpecCallbacks == InitNotify /\ [][NextCallbacks]_vars

----------------------------------------------------------------------------
(* Properties of the caches, checked under Spec *)

\* the width, height and theta a read of the handle gives in this state
CurW == IF img.w # None THEN img.w[1] ELSE natural[1]
CurH == IF img.h # None THEN img.h[1] ELSE natural[2]
CurTheta == IF img.theta # None THEN img.theta[1] ELSE Rat(0, 1)

ThetaWrittenOverSurface == last.op = "set_theta" /\ last.preSurf # {}

\* C1 as stated: a write to theta with the surface cached leaves that very
\* surface cached and unreleased, so the next read of surface returns it.
C1_ThetaKeepsSurface ==
    ThetaWrittenOverSurface =>
        /\ img.surf # None
        /\ SurfIds([img EXCEPT !.pat = None]) = last.preSurf
        /\ last.preSurf \subseteq img.live

\* C1 as amended: a write to theta with the surface cached finishes that
\* surface and drops it from the cache, and leaves the pattern cache Absent; a
\* surface cached after the write, or read next, is another instance.
C1_ThetaResetsSurface ==
    ThetaWrittenOverSurface =>
        /\ last.preSurf \cap img.live = {}
        /\ last.preSurf \cap SurfIds(img) = {}
        /\ img.pat = None

C1_Witness ==
    /\ ThetaWrittenOverSurface
    /\ img.exc = "none"
    /\ img.surf # None
    /\ ~last.prePat

\* C2: a pattern returned by a read of Img.pattern was built with the width,
\* height and theta the handle has at that read, from a surface decoded for
\* that width and height.
C2_PatternIsCurrent ==
    (last.op = "get_pattern" /\ img.exc = "none") =>
        /\ img.retPat[1].width = CurW
        /\ img.retPat[1].height = CurH
        /\ img.retPat[1].theta = CurTheta
        /\ img.retPat[1].surface.req = <<CurW, CurH>>

\* C3: right after a write to width or height both caches are Absent.
C3_SizeWriteClearsBoth ==
    last.op \in {"set_width", "set_height"} => (img.surf = None /\ img.pat = None)

\* C4: at most one derived surface of the handle is unreleased, since each is
\* finished before the next is decoded.
C4_OneUnreleasedSurface == Cardinality(img.live) <= 1

\* C8: the natural size comes from one decode without a target size: at most
\* one such decode ever returns, what it returned stays memoized through every
\* later operation, and once it is memoized the decoder is not asked again.
C8_NaturalSizeOnce ==
    /\ [](/\ img.natDecodes <= 1
          /\ (img.dsurf # None) = (img.natDecodes = 1)
          /\ img.dsurf \in {None, Some(natural)}
          /\ img.dsize \in {None, Some(natural)}
          /\ (img.dsize # None => img.dsurf # None))
    /\ [][/\ (img.dsurf # None => img'.dsurf = img.dsurf)
          /\ (img.dsize # None => img'.dsize = img.dsize)]_vars

C8_Witness ==
    /\ img.dsize = Some(natural)
    /\ img.natDecodes = 1
    /\ last.op = "default_size"
    /\ img.w # None
    /\ img.pat # None

----------------------------------------------------------------------------
(* Properties of the Loader, checked under SpecLoader *)

\* the query made for a requested name
QueryOf(n) == IF splitext(n)[2] # <<>> THEN n ELSE n \o <<".", "*">>
\* the candidates directory i reports for a query, in its scan order
Candidates(i, q) == Matching(fs[i], q, 1)
\* the directories that report a candidate for a query
DirsWith(q) == {i \in DOMAIN fs : Candidates(i, q) # <<>>}
\* the path that first-match-wins gives a query some directory reports
FirstMatch(q) ==
    LET i == CHOOSE k \in DirsWith(q) : \A j \in DirsWith(q) : k <= j
    IN  <<i, Candidates(i, q)[1]>>

\* C5: in a returned mapping the entry of a requested name, under the name
\* or under its query, holds the Img of the first candidate of the earliest
\* directory that reports one for the query, and every entry is of a name.
C5_FirstMatchWins ==
    ldr.out = "ok" =>
        /\ \A n \in ldr.names : \A e \in ldr.d :
              e[1] \in {n, QueryOf(n)} =>
                  (DirsWith(QueryOf(n)) # {} /\ e[2] = from_path(FirstMatch(QueryOf(n))))
        /\ \A e \in ldr.d : \E n \in ldr.names : e[1] \in {n, QueryOf(n)}

C5_Witness ==
    /\ ldr.out = "ok"
    /\ Len(fs) = 2
    /\ \E e \in ldr.d : Cardinality(DirsWith(QueryOf(e[1]))) = 2 /\ e[2].path[1] = 1

\* C6: the call raises LoadingError exactly when some query has no candidate
\* in any directory; the error names exactly those queries, a name without
\* extension as name.*, and no mapping is returned with it.
C6_AllOrNothing ==
    ldr.out # "none" =>
        LET unmatched == {q \in {QueryOf(n) : n \in ldr.names} : DirsWith(q) = {}}
        IN  /\ (ldr.out = "LoadingError") = (unmatched # {})
            /\ ldr.out = "LoadingError" => (ldr.missing = unmatched /\ ldr.d = {})
            /\ ldr.out = "ok" => ldr.missing = {}

C6_Witness ==
    /\ ldr.out = "LoadingError"
    /\ ldr.missing = {<<"b", ".", "*">>}
    /\ ldr.names = {<<"a">>, <<"b">>}
    /\ DirsWith(<<"a", ".", "*">>) # {}

\* C7: a returned mapping has exactly one entry for every requested name,
\* keyed by that name.
C7_KeyedByRequestedName ==
    ldr.out = "ok" =>
        /\ {e[1] : e \in ldr.d} = ldr.names
        /\ Cardinality(ldr.d) = Cardinality(ldr.names)

----------------------------------------------------------------------------
(* Properties of the sizes, checked under SpecSize *)

Abs(n) == IF n < 0 THEN 0 - n ELSE n
\* k is an integer nearest to the number x
IsNearest(k, x) == 2 * Abs(x[1] - k * x[2]) <= x[2]
\* p is x rounded to a nearest integer and raised to 1 if less
IsPixelOf(p, x) ==
    \E k \in (x[1] \div x[2])..((x[1] \div x[2]) + 1) : IsNearest(k, x) /\ p = Max(k, 1)

\* C9: width and height are integers of at least 1 in every state: an unset
\* one reads as the natural one, and a write stores the value rounded to the
\* nearest integer and raised to 1.
C9_PixelSizes ==
    /\ img.w # None => img.w[1] \in Nat \ {0}
    /\ img.h # None => img.h[1] \in Nat \ {0}
    /\ CurW >= 1 /\ CurH >= 1
    /\ last.op = "set_width" => (img.w # None /\ IsPixelOf(img.w[1], last.a))
    /\ last.op = "set_height" => (img.h # None /\ IsPixelOf(img.h[1], last.a))
    /\ (last.op = "get_width" /\ img.exc = "none") => img.retNum = CurW
    /\ (last.op = "get_height" /\ img.exc = "none") => img.retNum = CurH
    /\ (last.op \in {"scale", "resize"} /\ img.exc = "none") =>
            (img.w # None /\ img.h # None)

C9_Witness ==
    /\ last.op = "set_width"
    /\ last.a = Rat(1, 2)
    /\ img.w = Some(1)
    /\ img.h = Some(2)

\* C10: resize dispatches on which arguments are not None: both given, each
\* dimension becomes its own requested value; one given, the other follows
\* the natural aspect ratio; none given, ValueError.  A failure of the decoder
\* is no outcome of the dispatch.
C10_ResizeDispatch ==
    (last.op = "resize" /\ img.exc # "DecodeError") =>
        LET w0 == Rat(natural[1], 1)
            h0 == Rat(natural[2], 1)
            a == last.a
            b == last.b
            Sized(x, y) == /\ img.exc = "none"
                           /\ img.w # None /\ IsPixelOf(img.w[1], x)
                           /\ img.h # None /\ IsPixelOf(img.h[1], y)
        IN  /\ (a # None /\ b # None) => Sized(a, b)
            /\ (a # None /\ b = None) => Sized(a, Mul(Div(h0, w0), a))
            /\ (a = None /\ b # None) => Sized(Mul(Div(w0, h0), b), b)
            /\ (a = None /\ b = None) => img.exc = "ValueError"

\* a call of scale or resize whose arguments are in error: scale with no
\* factor or, under the lock, with both; resize with no dimension
ArgumentError(c) ==
    \/ c.op = "scale" /\ c.a = None /\ c.b = None
    \/ c.op = "scale" /\ c.lock /\ c.a # None /\ c.b # None
    \/ c.op = "resize" /\ c.a = None /\ c.b = None

\* C11: a call of scale or resize whose arguments are in error fails, and
\* leaves width, height, theta and the Absent or Cached state of the surface
\* and of the pattern as they were before the call.
C11_ArgumentErrorsFirst ==
    [][ArgumentError(last') =>
            /\ img'.exc # "none"
            /\ img'.w = img.w /\ img'.h = img.h /\ img'.theta = img.theta
            /\ (img'.surf = None) = (img.surf = None)
            /\ (img'.pat = None) = (img.pat = None)]_vars

----------------------------------------------------------------------------
(* Properties of scaling, checked under SpecScale *)

\* round() of the number x itself: the nearest integer, a tie to the even one
RoundRat(x) ==
    LET q == x[1] \div x[2]
        r == x[1] % x[2]
    IN  IF 2 * r < x[2] THEN q
        ELSE IF 2 * r > x[2] THEN q + 1
        ELSE IF q % 2 = 0 THEN q ELSE q + 1
\* max(round(x), 1)
PixelOf(x) == Max(RoundRat(x), 1)
\* the natural size times a factor
NaturalTimes(i, f) == Mul(Rat(natural[i], 1), f)

\* a call of scale that returned, under the lock with one positive factor
\* and the other one unset, and without the lock
LockedByWidth == last.op = "scale" /\ img.exc = "none" /\ last.lock
                    /\ last.a # None /\ last.a[1] > 0 /\ last.b = None
LockedByHeight == last.op = "scale" /\ img.exc = "none" /\ last.lock
                    /\ last.b # None /\ last.b[1] > 0 /\ last.a = None
Unlocked == last.op = "scale" /\ img.exc = "none" /\ ~last.lock
OrOne(f) == IF f = None THEN Rat(1, 1) ELSE f

\* C12 as stated: under the lock with the one factor f, width and height are
\* max(round(w0 * f), 1) and max(round(h0 * f), 1); without the lock each is
\* the natural one times its own factor, an unset factor being 1.
C12_LockedScaleExact ==
    /\ LockedByWidth =>
          /\ img.w = Some(PixelOf(NaturalTimes(1, last.a)))
          /\ img.h = Some(PixelOf(NaturalTimes(2, last.a)))
    /\ LockedByHeight =>
          /\ img.w = Some(PixelOf(NaturalTimes(1, last.b)))
          /\ img.h = Some(PixelOf(NaturalTimes(2, last.b)))
    /\ Unlocked =>
          /\ img.w = Some(PixelOf(NaturalTimes(1, OrOne(last.a))))
          /\ img.h = Some(PixelOf(NaturalTimes(2, OrOne(last.b))))

\* C12 as amended: under the lock the dimension of the given factor is
\* max(round(natural * f), 1) and the other one, derived through the float
\* quotient of the natural height and width, is an integer nearest to its
\* natural size times f raised to 1, at a tie either neighbour; without the
\* lock each is max(round(natural * own factor), 1), an unset factor being 1.
C12_LockedScale ==
    /\ LockedByWidth =>
          /\ img.w = Some(PixelOf(NaturalTimes(1, last.a)))
          /\ img.h # None /\ IsPixelOf(img.h[1], NaturalTimes(2, last.a))
    /\ LockedByHeight =>
          /\ img.h = Some(PixelOf(NaturalTimes(2, last.b)))
          /\ img.w # None /\ IsPixelOf(img.w[1], NaturalTimes(1, last.b))
    /\ Unlocked =>
          /\ img.w = Some(PixelOf(NaturalTimes(1, OrOne(last.a))))
          /\ img.h = Some(PixelOf(NaturalTimes(2, OrOne(last.b))))

C12_Witness ==
    /\ LockedByWidth
    /\ natural = <<11, 3>>
    /\ last.a = Rat(5, 2)
    /\ img.w = Some(28)
    /\ img.h = Some(7)

\* a handle on which nothing was called yet, and a decoder that works
Fresh == Begin(NewImg, Quiet)
\* the last call, made on a fresh handle instead
OnFresh ==
    IF last.op = "scale"
    THEN scale(Fresh, AsFloat(last.a), AsFloat(last.b), last.lock)
    ELSE resize(Fresh, AsFloat(last.a), AsFloat(last.b))

\* C17: the width and height that a scale or resize leaves when it returns
\* are those the same call leaves on a fresh handle, whatever width and height
\* the handle had before: they depend on the natural size and the arguments
\* only, and the same call made again leaves them as they are.
C17_ScalesTheNaturalSize ==
    (last.op \in {"scale", "resize"} /\ img.exc = "none") =>
        (OnFresh.exc = "none" /\ img.w = OnFresh.w /\ img.h = OnFresh.h)

\* an Img of natural size 11x3 after resize(width=3.5): 4 wide, 1 high
C17_Witness ==
    /\ natural = <<11, 3>>
    /\ last.op = "resize" /\ last.a = Rat(7, 2) /\ last.b = None
    /\ img.exc = "none"
    /\ img.w = Some(4) /\ img.h = Some(1)

----------------------------------------------------------------------------
(* Properties of the builds, checked under Spec *)

\* the builds a read of surface makes: one for the natural size when a
\* dimension is unset and the natural size is not memoized, then its own
Builds ==
    IF (img.w = None \/ img.h = None) /\ img.dsize = None /\ img.dsurf = None
    THEN 2 ELSE 1
\* the decoder calls of these builds under oracle o when nothing fails hard: a
\* decoder that rejects the width and the height is called twice for each
AllCalls(o) == IF o.te THEN 2 * Builds ELSE Builds
\* those of the calls whose arguments the decoder takes
TakenCalls(o) == IF o.te THEN {2 * k : k \in 1..Builds} ELSE 1..Builds
\* a read of surface or of pattern in this state, under oracle o
SurfaceRead(o) == surface_get(Begin(img, o))
PatternRead(o) == pattern_get(Begin(img, o))
\* what a read that builds the surface leaves when the decoder rejects the
\* size and nothing fails hard: one call with the size, one call without,
\* the warning, and the surface of the second call in the cache
Degraded(r) ==
    /\ r.exc = "none"
    /\ r.logged
    /\ r.calls = 2 * Builds
    /\ r.surf # None
    /\ r.surf[1].size = natural
    /\ r.surf[1].req = <<CurW, CurH>>
    /\ r.surf[1].id \in r.live

\* C13: a read that finds no surface builds it: it asks the decoder, and if
\* the decoder rejects the size it asks once more without a size, logs, and
\* caches that result; if the decoder fails hard, on the first call or on the
\* retry, the read raises that failure and leaves the surface Absent and the
\* pattern as it was, Absent when the read was one of pattern.  A read of
\* pattern that found the surface cached builds no surface.
C13_DegradedOrAbsent ==
    /\ \A o \in Oracles :
          img.surf = None =>
             /\ SurfaceRead(o).calls >= 1
             /\ (o.te /\ o.failAt \notin TakenCalls(o)) => Degraded(SurfaceRead(o))
             /\ (o.te /\ o.failAt \notin TakenCalls(o) /\ img.pat = None) =>
                    (Degraded(PatternRead(o)) /\ PatternRead(o).pat # None)
             /\ (~o.te /\ SurfaceRead(o).exc = "none") =>
                    (~SurfaceRead(o).logged /\ SurfaceRead(o).calls = AllCalls(o))
             /\ (o.failAt \in TakenCalls(o)) =>
                    /\ SurfaceRead(o).exc = "DecodeError"
                    /\ SurfaceRead(o).surf = None
                    /\ SurfaceRead(o).pat = img.pat
             /\ (img.pat = None /\ PatternRead(o).exc # "none") =>
                    /\ PatternRead(o).exc = "DecodeError"
                    /\ PatternRead(o).surf = None
                    /\ PatternRead(o).pat = None
    /\ (last.op = "get_surface" /\ img.exc # "none") =>
          (img.exc = "DecodeError" /\ img.surf = None /\ (img.pat # None) = last.prePat)
    /\ (last.op = "get_pattern" /\ last.preSurf = {} /\ img.exc # "none") =>
          (img.exc = "DecodeError" /\ img.surf = None /\ img.pat = None)
    /\ (/\ last.op \in {"get_surface", "get_pattern"} /\ last.preSurf = {}
        /\ img.exc = "none" /\ img.logged) =>
          (img.surf # None /\ img.surf[1].size = natural)

\* a read of surface under a decoder that rejected the size 3x2 asked for
C13_Witness ==
    /\ last.op = "get_surface"
    /\ img.exc = "none"
    /\ img.logged
    /\ img.surf # None
    /\ img.surf[1].req = <<3, 2>>
    /\ img.surf[1].size = <<2, 2>>

\* C16: a write of width, height or theta, direct or by scale or resize,
\* builds nothing: a cache that was Absent is still Absent after it, and it
\* has not asked the decoder, for the natural size or for a target size.
C16_WritesBuildNothing ==
    [][last'.op \in {"set_width", "set_height", "set_theta", "scale", "resize"} =>
          /\ img.surf = None => img'.surf = None
          /\ img.pat = None => img'.pat = None
          /\ img'.natDecodes = img.natDecodes
          /\ img'.live \subseteq img.live]_vars

----------------------------------------------------------------------------
(* Properties of the pattern, checked under SpecPattern *)

\* the point of the surface that shows at the point (x, y) of the frame of
\* size tw x th when the surface is stretched over the frame
Stretched(p, x, y) ==
    <<Div(Mul(x, Rat(p.surface.size[1], 1)), Rat(p.width, 1)),
      Div(Mul(y, Rat(p.surface.size[2], 1)), Rat(p.height, 1))>>
\* the turn by theta about the point (cx, cy)
TurnedAbout(cx, cy, theta, x, y) ==
    transform_point(translate(rotate(translate(Matrix, cx, cy), theta), Neg(cx), Neg(cy)),
                    x, y)
\* the matrix of pattern p stretches first and turns about the centre of the
\* frame second, as far as the point at (dx, dy) from the centre shows
PivotsAtCentre(p, dx, dy) ==
    LET cx == Rat(p.width, 2)
        cy == Rat(p.height, 2)
        at == transform_point(pattern_matrix(p.surface, p.width, p.height, p.theta),
                              Add(cx, dx), Add(cy, dy))
        turned == TurnedAbout(cx, cy, p.theta, Add(cx, dx), Add(cy, dy))
        want == Stretched(p, turned[1], turned[2])
    IN  Same(at[1], want[1]) /\ Same(at[2], want[2])
Offsets == {<<Rat(1, 1), Rat(0, 1)>>, <<Rat(0, 1), Rat(1, 2)>>}

\* C14: the matrix of a cached pattern of a turned handle shows, at a point of
\* the target frame, the point of the surface that the frame stretched and then
\* turned about its own centre has there, whatever the sizes of the surface and
\* of the frame: at half a turn the point at (+d, 0) from the centre shows the
\* source of the point at (-d, 0).
C14_PivotAtFrameCentre ==
    (img.pat # None /\ img.pat[1].theta[1] # 0) =>
        \A d \in Offsets : PivotsAtCentre(img.pat[1], d[1], d[2])

----------------------------------------------------------------------------
(* Properties of equality, checked under SpecEq *)

\* theta, width and height of a handle, what is unset taken as 0.0 and as
\* the natural size
ThetaOf(m) == IF m.theta # None THEN m.theta[1] ELSE Rat(0, 1)
WidthOf(m) == IF m.w # None THEN m.w[1] ELSE natural[1]
HeightOf(m) == IF m.h # None THEN m.h[1] ELSE natural[2]
Compared == last.op = "eq" /\ img.exc = "none"
Alike ==
    /\ cmp.other # None
    /\ cmp.other[1].made.bytes_img = cmp.made.bytes_img
    /\ ThetaOf(cmp.other[1].m) = ThetaOf(img)
    /\ WidthOf(cmp.other[1].m) = WidthOf(img)
    /\ HeightOf(cmp.other[1].m) = HeightOf(img)

\* C15: a comparison that returns says equal exactly when the other object
\* is an Img with the same bytes, theta, width and height, a width or height
\* that is unset counting as the natural one, whatever the names and paths.
C15_EqualityByContent == Compared => cmp.ret = Some(Alike)

\* handles of different names are equal: the one with its width unset, the
\* other with its width written as the natural width
C15_Witness ==
    /\ Compared
    /\ cmp.ret = Some(TRUE)
    /\ cmp.other[1].made.name # cmp.made.name
    /\ img.w = None
    /\ cmp.other[1].m.w # None

----------------------------------------------------------------------------
(* Properties of the NotificationManager, checked under SpecNotify *)

\* C18: whatever the order in which the coroutines of service() and
\* register() go on after their awaits, a connection that self.bus holds is
\* given up only disconnected: no other connection is stored over it while it
\* is open, so that at most one connection is open and carries a service.
C18_OneConnection ==
    [][(nm.bus # None /\ nm'.bus # nm.bus) => nm.bus[1] \notin nm'.open]_vars

\* the step has ended a call of register()
RegisterEnds ==
    /\ nm'.did.call.kind = "register"
    /\ co'[nm'.did.task].pc \in {"returned", "raised"}

\* C19: a call of register() ends by returning, and the step that ends it
\* appends its callback once, and its on_close once when one is given, to
\* what the lists held: whether service() gave a service or None, and with
\* capabilities or without.
C19_RegisterAppends ==
    [][RegisterEnds =>
          /\ co'[nm'.did.task].pc = "returned"
          /\ nm'.callbacks = Append(nm.callbacks, nm'.did.call.callback)
          /\ nm'.close_callbacks =
                IF nm'.did.call.on_close # None
                THEN Append(nm.close_callbacks, nm'.did.call.on_close[1])
                ELSE nm.close_callbacks]_vars

----------------------------------------------------------------------------
(* Properties of the notifications, checked under SpecIds *)

\* C20: the notification added n-th has the id n, so that no two have the
\* same id, and the call that added it has returned this id, whatever
\* replaces_id it came with and whichever callbacks raised.
C20_IdsCountUp ==
    /\ \A k \in 1..Len(nm.notifications) : nm.notifications[k].id = k
    /\ nm.did.op \in {"show", "Notify"} => nm.did.ret = Len(nm.notifications)

\* the third notification, replacing the first, added while a callback raised
C20_Witness ==
    /\ nm.did.op = "Notify"
    /\ Len(nm.notifications) = 3
    /\ nm.notifications[3].replaces_id = Some(1)
    /\ nm.did.raised # {}
    /\ nm.did.ret = 3

----------------------------------------------------------------------------
(* Properties of the callbacks, checked under SpecCallbacks *)

\* the calls that a loop over the list callbacks makes when it invokes each
\* entry once, in the order of the list, with arg
EachOnce(callbacks, arg) ==
    [k \in 1..Len(callbacks) |-> [callback |-> callbacks[k], arg |-> arg]]

\* C21: add has invoked every callback registered exactly once, in the order
\* of their registration, with the notification it added, and has returned the
\* new id, whichever of the callbacks raised; close has invoked every close
\* callback registered exactly once, in order, with the id it was given,
\* whichever of them raised; neither call has raised.
C21_CallbackFailuresIsolated ==
    /\ nm.did.op \in {"show", "Notify"} =>
          /\ nm.did.exc = "none"
          /\ nm.did.invoked = EachOnce(nm.callbacks, Len(nm.notifications))
          /\ nm.did.ret = Len(nm.notifications)
    /\ nm.did.op = "close" =>
          /\ nm.did.exc = "none"
          /\ nm.did.invoked = EachOnce(nm.close_callbacks, nm.did.arg)

\* a notification was added while the first of three callbacks raised
C21_Witness ==
    /\ nm.did.op = "show"
    /\ nm.callbacks = <<"g", "f", "g">>
    /\ nm.did.raised = {1}
    /\ Len(nm.notifications) = 2

\* a notification was closed while the first two of three close callbacks raised
C21_WitnessClose ==
    /\ nm.did.op = "close"
    /\ nm.close_callbacks = <<"d", "c", "d">>
    /\ nm.did.raised = {1, 2}
    /\ nm.did.arg = 2

====
